---- MODULE Spec2Model ----
(***************************************************************************)
(* The three-stage ingestion pipeline of "Homework 3": filter 1 selects    *)
(* and ranks symbols and replaces the active set, filter 2 computes the    *)
(* missing date range per symbol, filter 3 pages through the candle API,   *)
(* normalizes, fills calendar gaps and stores the bars.                    *)
(*                                                                         *)
(* Dates are day numbers since the epoch (the stored ISO-8601 text is a    *)
(* fixed-width, order-preserving rendering of the same day), instants are  *)
(* milliseconds since the epoch, prices and volumes are integers standing  *)
(* for the numeric strings of the API.  None is the empty sequence and a   *)
(* present value v is <<v>>.                                               *)
(***************************************************************************)
EXTENDS Integers, Sequences, FiniteSets, TLC

\* ------------------------------------------------------------------ bounds
\* Days the clock may advance after the first run's day.
MaxTicks == 1
\* Length in days of the history window, 365 * config.YEARS_OF_HISTORY in
\* the source, scaled down so that every date of a task can be enumerated.
HistoryDays == 2
\* The budget config.TOP_N_SYMBOLS, scaled down.
TopN == 2
\* Klines in one page of the candle API when filter 3 is checked on its own.
MaxChunk == 2
\* Klines in one page of the candle API during the pipeline's runs.
RunPage == 1
\* Pipeline runs between two changes of the upstream data.
MaxRuns == 2

\* --------------------------------------------------------------- constants
MS_PER_DAY == 86400000

\* config.STABLE_QUOTES as the repository sets it.
STABLE_QUOTES == {"USDT", "USDC", "FDUSD", "BUSD", "EUR", "BTC", "ETH", "BNB"}

\* config.STABLE_QUOTES as the run finds it: the module attribute is read at
\* every call of has_unstable_quote.
VARIABLE stable_quotes

Tickers == {"AAA", "BBB", "CCC"}

\* The day of the first run; early enough dates stay non-negative.
Day0 == HistoryDays

Days == 0..(Day0 + MaxTicks + 1)

None == <<>>
Some(v) == <<v>>

\* ------------------------------------------------------------ http_client
date_to_ms(d) == d * MS_PER_DAY

\* datetime.fromtimestamp(ms / 1000, tz=utc).date()
DateOfMs(ms) == ms \div MS_PER_DAY

\* ------------------------------------------------------ filter 1 helpers
\* float(text): the numeric texts of the model's vocabulary; any other text
\* raises ValueError.
NumericTexts == {"0", "50", "100"}

FloatOf(text) ==
    CASE text = "0" -> 0
      [] text = "50" -> 50
      [] text = "100" -> 100

Put(f, k, v) == [x \in (DOMAIN f) \cup {k} |-> IF x = k THEN v ELSE f[x]]

\* One 24h-statistics object t: "quoteVolume" may be absent from the object;
\* when present it is a JSON string <<text>> or JSON null <<>>.
\* float(None) raises TypeError, which build_liquidity_map does not catch.
QuoteVolumeRaises(t) ==
    /\ "quoteVolume" \in DOMAIN t
    /\ t.quoteVolume = None

QuoteVolumeOf(t) ==
    LET text == IF "quoteVolume" \in DOMAIN t THEN t.quoteVolume[1] ELSE "0"
    IN  IF text \in NumericTexts THEN FloatOf(text) ELSE 0

RECURSIVE LiquidityFrom(_, _, _)
LiquidityFrom(tickers, i, liq) ==
    IF i > Len(tickers) THEN liq
    ELSE LiquidityFrom(tickers, i + 1,
                       Put(liq, tickers[i].symbol, QuoteVolumeOf(tickers[i])))

build_liquidity_map(tickers) == LiquidityFrom(tickers, 1, <<>>)

BuildLiquidityRaises(tickers) ==
    \E i \in 1..Len(tickers) : QuoteVolumeRaises(tickers[i])

\* Mutant: only the status is tested, the spot flag is ignored.
is_delisted_StatusOnly(symbol_info) == symbol_info.status # "TRADING"

\* symbol_info.get("isSpotTradingAllowed") is False: an absent key is None.
is_delisted(symbol_info) ==
    \/ symbol_info.status # "TRADING"
    \/ /\ "isSpotTradingAllowed" \in DOMAIN symbol_info
       /\ symbol_info.isSpotTradingAllowed = FALSE

has_unstable_quote(symbol_info) == symbol_info.quoteAsset \notin stable_quotes

normalize_symbol(symbol_info, liquidity_map) ==
    [symbol |-> symbol_info.symbol,
     base_asset |-> symbol_info.baseAsset,
     quote_asset |-> symbol_info.quoteAsset,
     liquidity_metric |-> IF symbol_info.symbol \in DOMAIN liquidity_map
                          THEN liquidity_map[symbol_info.symbol]
                          ELSE 0]

RECURSIVE CandidatesFrom(_, _, _, _)
CandidatesFrom(symbol_infos, liquidity_map, i, candidates) ==
    IF i > Len(symbol_infos) THEN candidates
    ELSE LET info == symbol_infos[i]
             sym == normalize_symbol(info, liquidity_map)
         IN  IF is_delisted(info) \/ has_unstable_quote(info)
                \/ sym.liquidity_metric <= 0
             THEN CandidatesFrom(symbol_infos, liquidity_map, i + 1, candidates)
             ELSE CandidatesFrom(symbol_infos, liquidity_map, i + 1,
                                 Append(candidates, sym))

BuildCandidates(symbol_infos, liquidity_map) ==
    CandidatesFrom(symbol_infos, liquidity_map, 1, <<>>)

\* list.sort(key=liquidity_metric, reverse=True): descending and stable, so
\* candidates of equal liquidity keep the order of the API listing.
InsertByLiquidity(sorted, x) ==
    LET before == {i \in 1..Len(sorted) :
                     sorted[i].liquidity_metric >= x.liquidity_metric}
        n == Cardinality(before)
    IN  SubSeq(sorted, 1, n) \o <<x>> \o SubSeq(sorted, n + 1, Len(sorted))

RECURSIVE SortFrom(_, _, _)
SortFrom(candidates, i, sorted) ==
    IF i > Len(candidates) THEN sorted
    ELSE SortFrom(candidates, i + 1, InsertByLiquidity(sorted, candidates[i]))

\* Mutant: the sort is left out, the listing order stands.
SortByLiquidity_NoSort(candidates) == candidates

SortByLiquidity(candidates) == SortFrom(candidates, 1, <<>>)

\* Mutant: the slice keeps the tail of the ranking, candidates[-max_symbols:].
Truncate_Tail(candidates, max_symbols) ==
    SubSeq(candidates,
           IF Len(candidates) < max_symbols THEN 1
           ELSE Len(candidates) - max_symbols + 1,
           Len(candidates))

Truncate(candidates, max_symbols) ==
    SubSeq(candidates, 1,
           IF Len(candidates) < max_symbols THEN Len(candidates) ELSE max_symbols)

SelectTop(symbol_infos, tickers, max_symbols) ==
    Truncate(SortByLiquidity(
                BuildCandidates(symbol_infos, build_liquidity_map(tickers))),
             max_symbols)

\* ------------------------------------------------------ filter 3 helpers
\* A raw kline is <<openTimeMs, open, high, low, close, volume>>.
BarOf(symbol_id, d, k) ==
    [symbol_id |-> symbol_id, date |-> d,
     open |-> k[2], high |-> k[3], low |-> k[4], close |-> k[5],
     volume |-> k[6],
     last_price_24h |-> k[5], volume_24h |-> k[6],
     high_24h |-> k[3], low_24h |-> k[4], liquidity |-> k[6]]

RECURSIVE NormalizeFrom(_, _, _, _)
NormalizeFrom(symbol_id, klines, i, rows_by_date) ==
    IF i > Len(klines) THEN rows_by_date
    ELSE LET d == DateOfMs(klines[i][1])
         IN  NormalizeFrom(symbol_id, klines, i + 1,
                           Put(rows_by_date, d, BarOf(symbol_id, d, klines[i])))

normalize_klines(symbol_id, klines) == NormalizeFrom(symbol_id, klines, 1, <<>>)

SyntheticBar(symbol_id, d, prev_close) ==
    [symbol_id |-> symbol_id, date |-> d,
     open |-> prev_close, high |-> prev_close, low |-> prev_close,
     close |-> prev_close, volume |-> 0,
     last_price_24h |-> prev_close, volume_24h |-> 0,
     high_24h |-> prev_close, low_24h |-> prev_close, liquidity |-> 0]

\* Mutant: the previous close is set by the first kline only.
FillStep_StaleClose(symbol_id, current, prev_close, rows_by_date) ==
    IF current \in DOMAIN rows_by_date
    THEN [row |-> Some(rows_by_date[current]),
          prev_close |-> IF prev_close = None
                         THEN Some(rows_by_date[current].close)
                         ELSE prev_close]
    ELSE IF prev_close # None
         THEN [row |-> Some(SyntheticBar(symbol_id, current, prev_close[1])),
               prev_close |-> prev_close]
         ELSE [row |-> None, prev_close |-> prev_close]

\* Mutant: a date before the first kline gets a flat row at price 0.
FillStep_ZeroFill(symbol_id, current, prev_close, rows_by_date) ==
    IF current \in DOMAIN rows_by_date
    THEN [row |-> Some(rows_by_date[current]),
          prev_close |-> Some(rows_by_date[current].close)]
    ELSE IF prev_close # None
         THEN [row |-> Some(SyntheticBar(symbol_id, current, prev_close[1])),
               prev_close |-> prev_close]
         ELSE [row |-> Some(SyntheticBar(symbol_id, current, 0)),
               prev_close |-> prev_close]

\* The body of the while loop for one date: the row to append (None to skip
\* the date) and the previous close carried on.
FillStep(symbol_id, current, prev_close, rows_by_date) ==
    IF current \in DOMAIN rows_by_date
    THEN [row |-> Some(rows_by_date[current]),
          prev_close |-> Some(rows_by_date[current].close)]
    ELSE IF prev_close # None
         THEN [row |-> Some(SyntheticBar(symbol_id, current, prev_close[1])),
               prev_close |-> prev_close]
         ELSE [row |-> None, prev_close |-> prev_close]

RECURSIVE FillFrom(_, _, _, _, _, _)
FillFrom(symbol_id, current, end_date, rows_by_date, prev_close, filled_rows) ==
    IF current > end_date THEN filled_rows
    ELSE LET step == FillStep(symbol_id, current, prev_close, rows_by_date)
         IN  FillFrom(symbol_id, current + 1, end_date, rows_by_date,
                      step.prev_close, filled_rows \o step.row)

\* Mutant: every normalized row is returned, whatever its date.
fill_missing_dates_AllRows(symbol_id, start_date, end_date, rows_by_date) ==
    LET D == DOMAIN rows_by_date
    IN  [i \in 1..Cardinality(D) |->
            rows_by_date[CHOOSE d \in D : Cardinality({x \in D : x < d}) = i - 1]]

fill_missing_dates(symbol_id, start_date, end_date, rows_by_date) ==
    FillFrom(symbol_id, start_date, end_date, rows_by_date, None, <<>>)

\* ---------------------------------------------------------------- storage
\* The statements of src/sql/*.sql, which db.py loads: the table
\* cryptocurrencies is a set of rows keyed by symbol, daily_data a set of
\* rows keyed by (symbol_id, date).
EmptyDb == [cryptocurrencies |-> {}, daily_data |-> {}]

MaxId(rows) ==
    IF rows = {} THEN 0
    ELSE CHOOSE m \in {r.id : r \in rows} : \A r \in rows : r.id <= m

\* Mutant: the UPDATE that clears the flags is left out.
ClearActive_Skipped(db) == db

\* UPDATE cryptocurrencies SET is_active = 0
ClearActive(db) ==
    [db EXCEPT !.cryptocurrencies =
        {[r EXCEPT !.is_active = 0] : r \in db.cryptocurrencies}]

\* upsert_symbol.sql: insert the symbol with is_active = 1, or on a conflict
\* of the symbol update the assets and set is_active = 1, keeping the id.
UpsertSymbol(db, symbol, base_asset, quote_asset) ==
    LET old == {r \in db.cryptocurrencies : r.symbol = symbol}
        id == IF old = {} THEN MaxId(db.cryptocurrencies) + 1
              ELSE (CHOOSE r \in old : TRUE).id
    IN  [db EXCEPT !.cryptocurrencies =
            (db.cryptocurrencies \ old) \cup
            {[id |-> id, symbol |-> symbol, base_asset |-> base_asset,
              quote_asset |-> quote_asset, is_active |-> 1]}]

\* select_by_id_cryptocurrencies.sql: the row of the symbol, or None.
SelectBySymbol(db, symbol) ==
    LET found == {r \in db.cryptocurrencies : r.symbol = symbol}
    IN  IF found = {} THEN None ELSE Some(CHOOSE r \in found : TRUE)

\* select_last_date_symbol.sql: MAX(date) of the symbol's rows, or None.
SelectLastDate(db, symbol_id) ==
    LET dates == {r.date : r \in {x \in db.daily_data : x.symbol_id = symbol_id}}
    IN  IF dates = {} THEN None
        ELSE Some(CHOOSE m \in dates : \A d \in dates : d <= m)

\* insert_daily_data.sql for one row: insert, or on a conflict of
\* (symbol_id, date) overwrite the value columns.
InsertDailyRow(daily_data, row) ==
    {r \in daily_data : ~(r.symbol_id = row.symbol_id /\ r.date = row.date)}
        \cup {row}

RECURSIVE InsertRowsFrom(_, _, _)
InsertRowsFrom(daily_data, rows, i) ==
    IF i > Len(rows) THEN daily_data
    ELSE InsertRowsFrom(InsertDailyRow(daily_data, rows[i]), rows, i + 1)

\* Mutant: on a conflict of the key the stored volume is added to the new one.
InsertDailyData_Accumulate(db, rows) ==
    LET old(row) == {r \in db.daily_data :
                        r.symbol_id = row.symbol_id /\ r.date = row.date}
        sum(row) == IF old(row) = {} THEN row
                    ELSE [row EXCEPT !.volume =
                             @ + (CHOOSE r \in old(row) : TRUE).volume]
    IN  [db EXCEPT !.daily_data =
            {r \in @ : \A i \in 1..Len(rows) : old(rows[i]) # {r}}
                \cup {sum(rows[i]) : i \in 1..Len(rows)}]

\* cur.executemany(INSERT_DAILY_DATA_SQL, rows_to_store)
InsertDailyData(db, rows) ==
    [db EXCEPT !.daily_data = InsertRowsFrom(db.daily_data, rows, 1)]

ActiveSymbols(db) == {r.symbol : r \in {x \in db.cryptocurrencies : x.is_active = 1}}

\* ------------------------------------------------------------------ state
VARIABLES
    today,          \* date.today()
    exchangeInfo,   \* what /api/v3/exchangeInfo answers (symbol objects)
    ticker24hr,     \* what /api/v3/ticker/24hr answers (statistics objects)
    klinesMemo,     \* the answers /api/v3/klines has given, by request
    durable,        \* the committed content of crypto.db
    conn,           \* the content as the open connection sees it
    pc,             \* position of run_pipeline
    error,          \* the call that raised, when pc = "raised"
    symbol_infos,   \* filter 1: result of fetch_spot_symbols
    tickers,        \* filter 1: result of fetch_24h_tickers
    top_active,     \* filter 1: the ranked, truncated candidates
    upsertIdx,      \* filter 1: position of the upsert loop in top_active
    symbols,        \* main: list(filter_1_get_symbols(conn))
    detectIdx,      \* filter 2: position in symbols
    tasks,          \* main: list(filter_2_check_dates(symbols, conn))
    taskIdx,        \* filter 3: position in tasks
    current_start,  \* fetch_klines_range: the cursor
    all_klines,     \* fetch_klines_range: the klines collected
    calls,          \* fetch_klines_range: requests issued for this task
    asked,          \* history: the cursors of those requests
    rows_to_store,  \* filter 3: result of fill_missing_dates, last task
    preRun,         \* history: durable content when the run started
    lastEnd,        \* history: durable content when the last run finished
    runsSince,      \* history: runs finished in a row on the same upstream data
    runsToday,      \* history: runs started on the same upstream data
    lastSelected,   \* history: symbols of the last selection filter 1 committed
    preTask,        \* history: durable content when filter 3 took its task
    queries,        \* history: SELECTs filter 2 has executed in this run
    sqlLog          \* history: writing statements the run has executed

apiVars == <<today, exchangeInfo, ticker24hr, stable_quotes>>
f1Vars == <<symbol_infos, tickers, top_active, upsertIdx, symbols>>
f2Vars == <<detectIdx, tasks>>
f3Vars == <<taskIdx, current_start, all_klines, calls, asked, rows_to_store>>
histVars == <<preRun, lastEnd, runsSince, runsToday, lastSelected, preTask,
             queries>>

vars == <<today, exchangeInfo, ticker24hr, stable_quotes, klinesMemo, durable,
          conn, pc,
          error, symbol_infos, tickers, top_active, upsertIdx, symbols,
          detectIdx, tasks, taskIdx, current_start, all_klines, calls,
          asked, rows_to_store, preRun, lastEnd, runsSince, runsToday,
          lastSelected, preTask, queries, sqlLog>>

\* ------------------------------------------------- the market-data API
Instrument(t, status, spot, quote) ==
    [symbol |-> t, baseAsset |-> t, quoteAsset |-> quote, status |-> status,
     isSpotTradingAllowed |-> spot]

Stat(t, text) == [symbol |-> t, quoteVolume |-> Some(text)]

\* Listings of distinct tickers in any order.
ListingsOf(T, objects) ==
    {l \in [1..Cardinality(T) -> objects] :
        \A i, j \in 1..Cardinality(T) : i # j => l[i].symbol # l[j].symbol}

\* The kline the API holds for an instant: its prices and volume differ from
\* one instant to the next, so that bars of different candles are told apart.
KlineAt(ms) ==
    LET n == ms \div (MS_PER_DAY \div 2)
    IN  <<ms, 200 + n, 400 + n, 100 + n, 300 + n, 500 + n>>

BoundedSeqs(S, n) == UNION {[1..k -> S] : k \in 0..n}

\* What the pipeline's runs are checked against: three tradeable instruments
\* with the same 24h volume listed in either order (the budget cuts a tie),
\* one instrument with volume among them, or none.
RunMarkets ==
    LET i(t) == Instrument(t, "TRADING", TRUE, "USDT")
        abc == <<i("AAA"), i("BBB"), i("CCC")>>
        cba == <<i("CCC"), i("BBB"), i("AAA")>>
        stats(a, b, c) == <<Stat("AAA", a), Stat("BBB", b), Stat("CCC", c)>>
    IN  {[listing |-> abc, stats |-> stats("100", "100", "100")],
         [listing |-> cba, stats |-> stats("100", "100", "100")],
         [listing |-> abc, stats |-> stats("0", "50", "0")],
         [listing |-> abc, stats |-> stats("0", "0", "0")]}

\* Pages of the candle API for a request of the window [cursor, end]: at most
\* RunPage klines, each opening at midnight of a day from the day before the
\* cursor to the day after the end.
RunChunks(cursor, end) ==
    BoundedSeqs({KlineAt(date_to_ms(d)) : d \in (cursor - 1)..(end + 1)},
                RunPage)

\* ---------------------------------------------------------------- actions
Init ==
    /\ today = Day0
    /\ stable_quotes = STABLE_QUOTES
    /\ \E m \in RunMarkets :
          /\ exchangeInfo = m.listing
          /\ ticker24hr = m.stats
    /\ klinesMemo = <<>>
    /\ durable = EmptyDb
    /\ conn = EmptyDb
    /\ pc = "idle"
    /\ error = "none"
    /\ symbol_infos = <<>>
    /\ tickers = <<>>
    /\ top_active = <<>>
    /\ upsertIdx = 1
    /\ symbols = <<>>
    /\ detectIdx = 1
    /\ tasks = <<>>
    /\ taskIdx = 1
    /\ current_start = 0
    /\ all_klines = <<>>
    /\ calls = 0
    /\ asked = {}
    /\ rows_to_store = <<>>
    /\ preRun = EmptyDb
    /\ lastEnd = EmptyDb
    /\ runsSince = 0
    /\ runsToday = 0
    /\ lastSelected = {}
    /\ preTask = EmptyDb
    /\ queries = 0
    /\ sqlLog = <<>>

\* The upstream data changes overnight: a new listing, new statistics, and
\* the candle API is free to answer afresh.
NewDay ==
    /\ pc = "idle"
    /\ today < Day0 + MaxTicks
    /\ today' = today + 1
    /\ stable_quotes' = stable_quotes
    /\ \E m \in RunMarkets :
          /\ exchangeInfo' = m.listing
          /\ ticker24hr' = m.stats
    /\ klinesMemo' = <<>>
    /\ runsSince' = 0
    /\ runsToday' = 0
    /\ lastEnd' = EmptyDb
    /\ UNCHANGED <<durable, conn, pc, error, f1Vars, f2Vars, f3Vars, preRun,
                   lastSelected, preTask, queries, sqlLog>>

\* run_pipeline up to the call of filter 1: init_db() creates the tables if
\* they are missing, get_connection() opens the connection.
StartRun ==
    /\ pc = "idle"
    /\ runsToday < MaxRuns
    /\ runsToday' = runsToday + 1
    /\ conn' = durable
    /\ preRun' = durable
    /\ preTask' = durable
    /\ queries' = 0
    /\ sqlLog' = <<>>
    /\ error' = "none"
    /\ symbol_infos' = <<>>
    /\ tickers' = <<>>
    /\ top_active' = <<>>
    /\ upsertIdx' = 1
    /\ symbols' = <<>>
    /\ detectIdx' = 1
    /\ tasks' = <<>>
    /\ taskIdx' = 1
    /\ current_start' = 0
    /\ all_klines' = <<>>
    /\ calls' = 0
    /\ asked' = {}
    /\ rows_to_store' = <<>>
    /\ pc' = "f1_symbols"
    /\ UNCHANGED <<apiVars, klinesMemo, durable, lastEnd, runsSince,
                   lastSelected>>

Raise(what) ==
    /\ pc' = "raised"
    /\ error' = what

\* Mutant: the active flags are cleared before the second API call.
F1FetchSymbols_ClearFirst ==
    /\ pc = "f1_symbols"
    /\ symbol_infos' = exchangeInfo
    /\ conn' = ClearActive(conn)
    /\ sqlLog' = Append(sqlLog, "clear")
    /\ pc' = "f1_tickers"
    /\ UNCHANGED <<apiVars, klinesMemo, durable, error, tickers,
                   top_active, upsertIdx, symbols, f2Vars, f3Vars, histVars>>

\* symbol_infos = fetch_spot_symbols()
F1FetchSymbols ==
    /\ pc = "f1_symbols"
    /\ symbol_infos' = exchangeInfo
    /\ pc' = "f1_tickers"
    /\ UNCHANGED <<apiVars, klinesMemo, durable, conn, error, tickers,
                   top_active, upsertIdx, symbols, f2Vars, f3Vars, histVars,
                   sqlLog>>

\* resp.raise_for_status() or the transport raises in fetch_spot_symbols
F1FetchSymbolsFails ==
    /\ pc = "f1_symbols"
    /\ Raise("fetch_spot_symbols")
    /\ UNCHANGED <<apiVars, klinesMemo, durable, conn, f1Vars, f2Vars, f3Vars,
                   histVars, sqlLog>>

\* tickers = fetch_24h_tickers()
F1FetchTickers ==
    /\ pc = "f1_tickers"
    /\ tickers' = ticker24hr
    /\ pc' = "f1_rank"
    /\ UNCHANGED <<apiVars, klinesMemo, durable, conn, error, symbol_infos,
                   top_active, upsertIdx, symbols, f2Vars, f3Vars, histVars,
                   sqlLog>>

F1FetchTickersFails ==
    /\ pc = "f1_tickers"
    /\ Raise("fetch_24h_tickers")
    /\ UNCHANGED <<apiVars, klinesMemo, durable, conn, f1Vars, f2Vars, f3Vars,
                   histVars, sqlLog>>

\* Mutant: with no candidate left the generator goes on to the UPDATE.
F1Rank_ClearOnEmpty ==
    /\ pc = "f1_rank"
    /\ IF BuildLiquidityRaises(tickers)
       THEN /\ Raise("build_liquidity_map")
            /\ UNCHANGED top_active
       ELSE /\ top_active' = SelectTop(symbol_infos, tickers, TopN)
            /\ pc' = "f1_clear"
            /\ UNCHANGED error
    /\ UNCHANGED <<apiVars, klinesMemo, durable, conn, symbol_infos, tickers,
                   upsertIdx, symbols, f2Vars, f3Vars, histVars, sqlLog>>

\* build_liquidity_map, the candidate loop, the sort and the truncation; with
\* no candidate left the generator returns before any statement is executed.
F1Rank ==
    /\ pc = "f1_rank"
    /\ IF BuildLiquidityRaises(tickers)
       THEN /\ Raise("build_liquidity_map")
            /\ UNCHANGED top_active
       ELSE /\ top_active' = SelectTop(symbol_infos, tickers, TopN)
            /\ pc' = IF top_active' = <<>> THEN "f2" ELSE "f1_clear"
            /\ UNCHANGED error
    /\ UNCHANGED <<apiVars, klinesMemo, durable, conn, symbol_infos, tickers,
                   upsertIdx, symbols, f2Vars, f3Vars, histVars, sqlLog>>

\* Mutant: the connection is in autocommit mode, the UPDATE is durable at once.
F1Clear_Autocommit ==
    /\ pc = "f1_clear"
    /\ conn' = ClearActive(conn)
    /\ durable' = conn'
    /\ sqlLog' = Append(sqlLog, "clear")
    /\ upsertIdx' = 1
    /\ pc' = "f1_upsert"
    /\ UNCHANGED <<apiVars, klinesMemo, error, symbol_infos, tickers,
                   top_active, symbols, f2Vars, f3Vars, histVars>>

\* cur.execute("UPDATE cryptocurrencies SET is_active = 0")
F1Clear ==
    /\ pc = "f1_clear"
    /\ conn' = ClearActive(conn)
    /\ sqlLog' = Append(sqlLog, "clear")
    /\ upsertIdx' = 1
    /\ pc' = "f1_upsert"
    /\ UNCHANGED <<apiVars, klinesMemo, durable, error, symbol_infos, tickers,
                   top_active, symbols, f2Vars, f3Vars, histVars>>

\* One turn of the upsert loop: the upsert, then the id read back into sym.
F1Upsert ==
    /\ pc = "f1_upsert"
    /\ upsertIdx <= Len(top_active)
    /\ LET sym == top_active[upsertIdx]
           db == UpsertSymbol(conn, sym.symbol, sym.base_asset, sym.quote_asset)
           row == SelectBySymbol(db, sym.symbol)
       IN  /\ conn' = db
           /\ top_active' = [top_active EXCEPT ![upsertIdx] =
                                [symbol_id |-> row[1].id] @@ sym]
    /\ sqlLog' = Append(sqlLog, "upsert")
    /\ upsertIdx' = upsertIdx + 1
    /\ UNCHANGED <<apiVars, klinesMemo, durable, pc, error, symbol_infos,
                   tickers, symbols, f2Vars, f3Vars, histVars>>

\* A statement of the loop, or the commit, raises sqlite3.Error (the file is
\* locked by another process, the disk is full).
F1StorageFails ==
    /\ pc = "f1_upsert"
    /\ Raise("sqlite3")
    /\ UNCHANGED <<apiVars, klinesMemo, durable, conn, f1Vars, f2Vars, f3Vars,
                   histVars, sqlLog>>

\* Mutant: the symbols are handed on with the transaction still open.
F1Commit_Deferred ==
    /\ pc = "f1_upsert"
    /\ upsertIdx > Len(top_active)
    /\ lastSelected' = {top_active[i].symbol : i \in 1..Len(top_active)}
    /\ pc' = "f1_yield"
    /\ UNCHANGED <<apiVars, klinesMemo, durable, conn, error, f1Vars, f2Vars,
                   f3Vars, preRun, lastEnd, runsSince, runsToday, preTask,
                   queries, sqlLog>>

\* conn.commit()
F1Commit ==
    /\ pc = "f1_upsert"
    /\ upsertIdx > Len(top_active)
    /\ durable' = conn
    /\ sqlLog' = Append(sqlLog, "commit")
    /\ lastSelected' = {top_active[i].symbol : i \in 1..Len(top_active)}
    /\ pc' = "f1_yield"
    /\ UNCHANGED <<apiVars, klinesMemo, conn, error, f1Vars, f2Vars, f3Vars,
                   preRun, lastEnd, runsSince, runsToday, preTask, queries>>

\* for sym in top_active: yield sym, collected by list() in run_pipeline
F1Yield ==
    /\ pc = "f1_yield"
    /\ symbols' = top_active
    /\ pc' = "f2"
    /\ UNCHANGED <<apiVars, klinesMemo, durable, conn, error, symbol_infos,
                   tickers, top_active, upsertIdx, f2Vars, f3Vars, histVars,
                   sqlLog>>

\* Mutant: the range starts on the last stored date, not the day after.
TaskRange_FromLastDate(last_date, today_) ==
    IF last_date = None
    THEN [start |-> today_ - HistoryDays, end |-> today_]
    ELSE [start |-> last_date[1], end |-> today_]

\* Mutant: the history window is one day short.
TaskRange_ShortWindow(last_date, today_) ==
    IF last_date = None
    THEN [start |-> today_ - HistoryDays + 1, end |-> today_]
    ELSE [start |-> last_date[1] + 1, end |-> today_]

\* The range filter 2 asks for, given the symbol's last stored date.
TaskRange(last_date, today_) ==
    IF last_date = None
    THEN [start |-> today_ - HistoryDays, end |-> today_]
    ELSE [start |-> last_date[1] + 1, end |-> today_]

\* Mutant: the task is yielded without the test start <= end.
F2CheckDates_AlwaysYield ==
    /\ pc = "f2"
    /\ detectIdx <= Len(symbols)
    /\ LET sym == symbols[detectIdx]
           range == TaskRange(SelectLastDate(conn, sym.symbol_id), today)
       IN  tasks' = Append(tasks, [symbol_id |-> sym.symbol_id,
                                   symbol |-> sym.symbol,
                                   start_date |-> range.start,
                                   end_date |-> range.end])
    /\ detectIdx' = detectIdx + 1
    /\ queries' = queries + 1
    /\ UNCHANGED <<apiVars, klinesMemo, durable, conn, pc, error, f1Vars,
                   f3Vars, preRun, lastEnd, runsSince, runsToday, lastSelected,
                   preTask, sqlLog>>

\* Mutant: a symbol that needs no task is flagged inactive in passing.
F2CheckDates_FlagCurrent ==
    /\ pc = "f2"
    /\ detectIdx <= Len(symbols)
    /\ LET sym == symbols[detectIdx]
           range == TaskRange(SelectLastDate(conn, sym.symbol_id), today)
       IN  IF range.start <= range.end
           THEN /\ tasks' = Append(tasks, [symbol_id |-> sym.symbol_id,
                                           symbol |-> sym.symbol,
                                           start_date |-> range.start,
                                           end_date |-> range.end])
                /\ UNCHANGED conn
           ELSE /\ conn' = [conn EXCEPT !.cryptocurrencies =
                               {IF r.id = sym.symbol_id
                                THEN [r EXCEPT !.is_active = 0] ELSE r :
                                    r \in @}]
                /\ UNCHANGED tasks
    /\ detectIdx' = detectIdx + 1
    /\ queries' = queries + 1
    /\ UNCHANGED <<apiVars, klinesMemo, durable, pc, error, f1Vars,
                   f3Vars, preRun, lastEnd, runsSince, runsToday, lastSelected,
                   preTask, sqlLog>>

\* One turn of the loop of filter_2_check_dates, consumed by list().
F2CheckDates ==
    /\ pc = "f2"
    /\ detectIdx <= Len(symbols)
    /\ LET sym == symbols[detectIdx]
           range == TaskRange(SelectLastDate(conn, sym.symbol_id), today)
       IN  tasks' = IF range.start <= range.end
                    THEN Append(tasks, [symbol_id |-> sym.symbol_id,
                                        symbol |-> sym.symbol,
                                        start_date |-> range.start,
                                        end_date |-> range.end])
                    ELSE tasks
    /\ detectIdx' = detectIdx + 1
    /\ queries' = queries + 1
    /\ UNCHANGED <<apiVars, klinesMemo, durable, conn, pc, error, f1Vars,
                   f3Vars, preRun, lastEnd, runsSince, runsToday, lastSelected,
                   preTask, sqlLog>>

F2Done ==
    /\ pc = "f2"
    /\ detectIdx > Len(symbols)
    /\ pc' = "f3"
    /\ UNCHANGED <<apiVars, klinesMemo, durable, conn, error, f1Vars, f2Vars,
                   f3Vars, histVars, sqlLog>>

\* filter_3_fill_data takes the next task and enters fetch_klines_range.
F3BeginTask ==
    /\ pc = "f3"
    /\ taskIdx <= Len(tasks)
    /\ current_start' = tasks[taskIdx].start_date
    /\ all_klines' = <<>>
    /\ calls' = 0
    /\ asked' = {}
    /\ preTask' = durable
    /\ pc' = "f3_loop"
    /\ UNCHANGED <<apiVars, klinesMemo, durable, conn, error, f1Vars, f2Vars,
                   taskIdx, rows_to_store, preRun, lastEnd, runsSince,
                   runsToday, lastSelected, queries, sqlLog>>

\* Mutant: the cursor is set to the date of the page's last kline.
NextStart_NoAdvance(chunk) == DateOfMs(chunk[Len(chunk)][1])

\* Mutant: the cursor is set to the day after the page's first kline.
NextStart_FromFirst(chunk) == DateOfMs(chunk[1][1]) + 1

\* current_start after a page: the day after the date of its last kline.
NextStart(chunk) == DateOfMs(chunk[Len(chunk)][1]) + 1

\* "if current_start <= start_date: break"
StallGuard(new_start, start_date) == new_start <= start_date

\* The loop is about to repeat a request of this task.  The API answers it
\* as before, so the cursor moves as before and the loop never ends; the
\* model does not follow it further.
Spinning == pc = "f3_loop" /\ current_start \in asked

\* Mutant: every page is normalized, stored and committed as it arrives.
F3FetchPage_StorePages(chunks) ==
    /\ pc = "f3_loop"
    /\ current_start <= tasks[taskIdx].end_date
    /\ ~Spinning
    /\ asked' = asked \cup {current_start}
    /\ LET task == tasks[taskIdx]
           req == <<task.symbol, date_to_ms(current_start),
                    date_to_ms(task.end_date)>>
       IN  \E chunk \in (IF req \in DOMAIN klinesMemo
                         THEN {klinesMemo[req]}
                         ELSE chunks) :
             /\ klinesMemo' = Put(klinesMemo, req, chunk)
             /\ conn' = [conn EXCEPT !.daily_data =
                            @ \cup {BarOf(task.symbol_id, DateOfMs(chunk[i][1]),
                                          chunk[i]) : i \in 1..Len(chunk)}]
             /\ durable' = conn'
             /\ IF chunk = <<>>
                THEN /\ pc' = "f3_store"
                     /\ UNCHANGED <<all_klines, current_start>>
                ELSE /\ all_klines' = all_klines \o chunk
                     /\ current_start' = NextStart(chunk)
                     /\ pc' = IF StallGuard(current_start', task.start_date)
                              THEN "f3_store"
                              ELSE "f3_loop"
    /\ calls' = calls + 1
    /\ UNCHANGED <<apiVars, error, f1Vars, f2Vars, taskIdx, rows_to_store,
                   histVars, sqlLog>>

\* One turn of the while loop of fetch_klines_range that gets a page.  The
\* API answers a request it has answered before on the same day as before.
F3FetchPage(chunks) ==
    /\ pc = "f3_loop"
    /\ current_start <= tasks[taskIdx].end_date
    /\ ~Spinning
    /\ asked' = asked \cup {current_start}
    /\ LET task == tasks[taskIdx]
           req == <<task.symbol, date_to_ms(current_start),
                    date_to_ms(task.end_date)>>
       IN  \E chunk \in (IF req \in DOMAIN klinesMemo
                         THEN {klinesMemo[req]}
                         ELSE chunks) :
             /\ klinesMemo' = Put(klinesMemo, req, chunk)
             /\ IF chunk = <<>>
                THEN /\ pc' = "f3_store"
                     /\ UNCHANGED <<all_klines, current_start>>
                ELSE /\ all_klines' = all_klines \o chunk
                     /\ current_start' = NextStart(chunk)
                     /\ pc' = IF StallGuard(current_start', task.start_date)
                              THEN "f3_store"
                              ELSE "f3_loop"
    /\ calls' = calls + 1
    /\ UNCHANGED <<apiVars, durable, conn, error, f1Vars, f2Vars, taskIdx,
                   rows_to_store, histVars, sqlLog>>

\* resp.raise_for_status() or the transport raises in fetch_klines_range
F3FetchFails ==
    /\ pc = "f3_loop"
    /\ current_start <= tasks[taskIdx].end_date
    /\ Raise("fetch_klines_range")
    /\ UNCHANGED <<apiVars, klinesMemo, durable, conn, f1Vars, f2Vars, f3Vars,
                   histVars, sqlLog>>

\* The condition of the while loop fails: current_start > end_date.
F3LoopExit ==
    /\ pc = "f3_loop"
    /\ current_start > tasks[taskIdx].end_date
    /\ pc' = "f3_store"
    /\ UNCHANGED <<apiVars, klinesMemo, durable, conn, error, f1Vars, f2Vars,
                   f3Vars, histVars, sqlLog>>

\* The rows filter 3 stores for a task, from the klines it collected.
RowsToStore(task, klines) ==
    fill_missing_dates(task.symbol_id, task.start_date, task.end_date,
                       normalize_klines(task.symbol_id, klines))

\* Mutant: a row is stored for every kline collected, in a table without key.
F3Store_RawAppend ==
    /\ pc = "f3_store"
    /\ rows_to_store' = RowsToStore(tasks[taskIdx], all_klines)
    /\ conn' = [conn EXCEPT !.daily_data =
                   @ \cup {BarOf(tasks[taskIdx].symbol_id,
                                 DateOfMs(all_klines[i][1]), all_klines[i]) :
                              i \in 1..Len(all_klines)}]
    /\ durable' = conn'
    /\ sqlLog' = sqlLog \o <<"insert", "commit">>
    /\ taskIdx' = taskIdx + 1
    /\ pc' = "f3"
    /\ UNCHANGED <<apiVars, klinesMemo, error, f1Vars, f2Vars, current_start,
                   all_klines, calls, asked, histVars>>

\* normalize_klines, fill_missing_dates, executemany and commit for the task.
F3Store ==
    /\ pc = "f3_store"
    /\ rows_to_store' = RowsToStore(tasks[taskIdx], all_klines)
    /\ IF rows_to_store' # <<>>
       THEN /\ conn' = InsertDailyData(conn, rows_to_store')
            /\ durable' = conn'
            /\ sqlLog' = sqlLog \o <<"insert", "commit">>
       ELSE UNCHANGED <<conn, durable, sqlLog>>
    /\ taskIdx' = taskIdx + 1
    /\ pc' = "f3"
    /\ UNCHANGED <<apiVars, klinesMemo, error, f1Vars, f2Vars, current_start,
                   all_klines, calls, asked, histVars>>

F3Done ==
    /\ pc = "f3"
    /\ taskIdx > Len(tasks)
    /\ pc' = "finished"
    /\ UNCHANGED <<apiVars, klinesMemo, durable, conn, error, f1Vars, f2Vars,
                   f3Vars, histVars, sqlLog>>

\* finally: conn.close().  What the connection has not committed is rolled
\* back; the locals of the run go out of scope.
CloseConn ==
    /\ pc \in {"finished", "raised"}
    /\ conn' = durable
    /\ lastEnd' = IF pc = "finished" THEN durable ELSE lastEnd
    /\ runsSince' = IF pc = "finished" THEN runsSince + 1 ELSE 0
    /\ pc' = "idle"
    /\ error' = "none"
    /\ symbol_infos' = <<>>
    /\ tickers' = <<>>
    /\ top_active' = <<>>
    /\ upsertIdx' = 1
    /\ symbols' = <<>>
    /\ detectIdx' = 1
    /\ tasks' = <<>>
    /\ taskIdx' = 1
    /\ current_start' = 0
    /\ all_klines' = <<>>
    /\ calls' = 0
    /\ asked' = {}
    /\ rows_to_store' = <<>>
    /\ sqlLog' = <<>>
    /\ preRun' = durable
    /\ preTask' = durable
    /\ queries' = 0
    /\ UNCHANGED <<apiVars, klinesMemo, durable, runsToday, lastSelected>>

F3FetchPageRun ==
    F3FetchPage(RunChunks(current_start, tasks[taskIdx].end_date))

Next ==
    \/ NewDay
    \/ StartRun
    \/ F1FetchSymbols
    \/ F1FetchSymbolsFails
    \/ F1FetchTickers
    \/ F1FetchTickersFails
    \/ F1Rank
    \/ F1Clear
    \/ F1Upsert
    \/ F1StorageFails
    \/ F1Commit
    \/ F1Yield
    \/ F2CheckDates
    \/ F2Done
    \/ F3BeginTask
    \/ F3FetchPageRun
    \/ F3FetchFails
    \/ F3LoopExit
    \/ F3Store
    \/ F3Done
    \/ CloseConn

Spec == Init /\ [][Next]_vars

\* ------------------------------------------------ filter 1 on any listing
\* Each instrument is tradeable on a stable quote or has one of the flaws
\* filter 1 excludes; the statistics of AAA may be malformed or missing.
SelectInstruments ==
    {Instrument(t, "TRADING", TRUE, "USDT") : t \in Tickers}
    \cup {Instrument(t, "BREAK", TRUE, "USDT") : t \in Tickers}
    \cup {Instrument(t, "TRADING", FALSE, "BTC") : t \in Tickers}
    \cup {Instrument(t, "TRADING", TRUE, "DOGE") : t \in Tickers}
    \cup {[symbol |-> t, baseAsset |-> t, quoteAsset |-> "EUR",
           status |-> "TRADING"] : t \in {"CCC"}}

SelectStats ==
    {a \o <<Stat("BBB", b), Stat("CCC", c)>> :
        a \in {<<Stat("AAA", x)>> : x \in {"0", "50", "100", "abc"}}
              \cup {<<>>, <<[symbol |-> "AAA"]>>,
                    <<[symbol |-> "AAA", quoteVolume |-> None]>>},
        b \in {"50", "100"}, c \in {"0", "50", "100"}}

\* A store in which an earlier run has left BBB and CCC, BBB active.
SeedDb ==
    [cryptocurrencies |->
        {[id |-> 1, symbol |-> "BBB", base_asset |-> "BBB",
          quote_asset |-> "USDT", is_active |-> 1],
         [id |-> 2, symbol |-> "CCC", base_asset |-> "CCC",
          quote_asset |-> "USDT", is_active |-> 0]},
     daily_data |-> {}]

InitRun(db, day, syms, ts) ==
    /\ today = day
    /\ klinesMemo = <<>>
    /\ durable = db
    /\ conn = db
    /\ error = "none"
    /\ symbol_infos = <<>>
    /\ tickers = <<>>
    /\ top_active = <<>>
    /\ upsertIdx = 1
    /\ symbols = syms
    /\ detectIdx = 1
    /\ tasks = ts
    /\ taskIdx = 1
    /\ current_start = 0
    /\ all_klines = <<>>
    /\ calls = 0
    /\ asked = {}
    /\ rows_to_store = <<>>
    /\ preRun = db
    /\ lastEnd = EmptyDb
    /\ runsSince = 0
    /\ runsToday = 1
    /\ lastSelected = ActiveSymbols(db)
    /\ preTask = db
    /\ queries = 0
    /\ sqlLog = <<>>

\* filter_1_get_symbols(conn) called on a seeded store, for any listing.
InitSelect ==
    /\ stable_quotes = STABLE_QUOTES
    /\ exchangeInfo \in ListingsOf(Tickers, SelectInstruments)
    /\ ticker24hr \in SelectStats
    /\ pc = "f1_symbols"
    /\ InitRun(SeedDb, Day0, <<>>, <<>>)

NextSelect ==
    \/ F1FetchSymbols
    \/ F1FetchSymbolsFails
    \/ F1FetchTickers
    \/ F1FetchTickersFails
    \/ F1Rank
    \/ F1Clear
    \/ F1Upsert
    \/ F1StorageFails
    \/ F1Commit
    \/ F1Yield
    \/ CloseConn

SpecSelect == InitSelect /\ [][NextSelect]_vars

\* --------------------------------------- filter 1 under an edited config
\* filter_1_get_symbols(conn) called with config.STABLE_QUOTES emptied or
\* cut down to one asset.
InitConfig ==
    /\ stable_quotes \in {{}, {"USDT"}}
    /\ exchangeInfo \in ListingsOf(Tickers, SelectInstruments)
    /\ ticker24hr \in SelectStats
    /\ pc = "f1_symbols"
    /\ InitRun(SeedDb, Day0, <<>>, <<>>)

SpecConfig == InitConfig /\ [][NextSelect]_vars

\* ------------------------------------------------- filter 3 on any pages
\* Klines opening at midnight of the days the tasks cover, and one opening
\* at noon: two candles of one date.
FillKlines ==
    {KlineAt(date_to_ms(d)) : d \in {1, 2, 3}}
        \cup {KlineAt(date_to_ms(2) + MS_PER_DAY \div 2)}

\* Pages of at most MaxChunk klines, in any order and with repeats.
FillChunks == BoundedSeqs(FillKlines, MaxChunk)

\* A task of the seeded symbol BBB: with the klines above its window may
\* begin after the first kline, end before the last, or both.
FillTasks ==
    {[symbol_id |-> 1, symbol |-> "BBB", start_date |-> b, end_date |-> e] :
        b \in {1, 2}, e \in {2, 3}}

\* filter_3_fill_data(tasks, conn) called with a task and the same task
\* again, for any pages.
InitFill ==
    /\ stable_quotes = STABLE_QUOTES
    /\ exchangeInfo = <<>>
    /\ ticker24hr = <<>>
    /\ pc = "f3"
    /\ \E t \in FillTasks : InitRun(SeedDb, t.end_date, <<>>, <<t, t>>)

F3FetchPageFill == F3FetchPage(FillChunks)

NextFill ==
    \/ F3BeginTask
    \/ F3FetchPageFill
    \/ F3FetchFails
    \/ F3LoopExit
    \/ F3Store
    \/ F3Done

SpecFill == InitFill /\ [][NextFill]_vars

\* ------------------------------------------ filter 3 on a store with bars
\* The store an earlier run has left: a bar of BBB on the day before the
\* task begins (filter 2 starts the task the day after the last stored date)
\* and a bar of CCC on the day the task ends.
ResumeDb(t) ==
    [SeedDb EXCEPT !.daily_data =
        {SyntheticBar(1, t.start_date - 1, 100),
         SyntheticBar(2, t.end_date, 100)}]

\* filter_3_fill_data(tasks, conn) called with the task filter 2 emits for
\* BBB on that store, for any pages.
InitResume ==
    /\ stable_quotes = STABLE_QUOTES
    /\ exchangeInfo = <<>>
    /\ ticker24hr = <<>>
    /\ pc = "f3"
    /\ \E t \in FillTasks : InitRun(ResumeDb(t), t.end_date, <<>>, <<t>>)

SpecResume == InitResume /\ [][NextFill]_vars

\* ------------------------------------------------ filter 2 on any store
\* The symbols filter 1 hands over, as it has stored them in SeedDb.
DetectSymbols ==
    <<[symbol_id |-> 1, symbol |-> "BBB", base_asset |-> "BBB",
       quote_asset |-> "USDT", liquidity_metric |-> 100],
      [symbol_id |-> 2, symbol |-> "CCC", base_asset |-> "CCC",
       quote_asset |-> "USDT", liquidity_metric |-> 50]>>

\* Dates that may hold a stored bar: from before the history window of the
\* earliest run day to the day after the latest one.
DetectDates == 0..(HistoryDays + 2)

\* SeedDb with a bar of BBB on each date of b and a bar of CCC on each of c.
DetectDb(b, c) ==
    [SeedDb EXCEPT !.daily_data =
        {SyntheticBar(1, d, 100) : d \in b} \cup
        {SyntheticBar(2, d, 100) : d \in c}]

\* filter_2_check_dates(symbols, conn) called on a store with any bars.
InitDetect ==
    /\ stable_quotes = STABLE_QUOTES
    /\ exchangeInfo = <<>>
    /\ ticker24hr = <<>>
    /\ pc = "f2"
    /\ \E b \in SUBSET DetectDates, c \in SUBSET DetectDates,
          day \in HistoryDays..(HistoryDays + 1) :
          InitRun(DetectDb(b, c), day, DetectSymbols, <<>>)

NextDetect ==
    \/ F2CheckDates
    \/ F2Done

SpecDetect == InitDetect /\ [][NextDetect]_vars

\* ================================================================ claims
RowsOf(db, symbol_id, d) ==
    {r \in db.daily_data : r.symbol_id = symbol_id /\ r.date = d}

StoredDates(db, symbol_id) ==
    {r.date : r \in {x \in db.daily_data : x.symbol_id = symbol_id}}

SymbolsOf(seq) == {seq[i].symbol : i \in 1..Len(seq)}

Flags(db) == {<<r.symbol, r.is_active>> : r \in db.cryptocurrencies}

\* The task filter 3 has just completed, when it has completed one.
TaskDone == pc = "f3" /\ taskIdx > 1

\* C1: once filter 3 has completed a task without error, every calendar date
\* of [start_date, end_date] has exactly one stored row of the task's symbol.
C1_CoverageComplete ==
    TaskDone =>
        \A d \in tasks[taskIdx - 1].start_date..tasks[taskIdx - 1].end_date :
            Cardinality(RowsOf(durable, tasks[taskIdx - 1].symbol_id, d)) = 1

\* C2: a turn of the fetch loop whose page does not move the cursor forward
\* (the API echoes the same candle) ends the loop.
C2_StallEndsLoop ==
    [][(pc = "f3_loop" /\ calls' = calls + 1 /\ all_klines' # all_klines
            /\ current_start' <= current_start)
       => pc' = "f3_store"]_vars

\* C3: a run that finishes right after a finished run on the same upstream
\* data leaves the stored bars and the active set as the first left them.
C3_PipelineIdempotent ==
    (pc = "finished" /\ runsSince >= 1) =>
        /\ durable.daily_data = lastEnd.daily_data
        /\ ActiveSymbols(durable) = ActiveSymbols(lastEnd)

C3_Witness ==
    /\ pc = "finished"
    /\ runsSince >= 1
    /\ durable.daily_data # {}
    /\ ActiveSymbols(durable) # {}
    /\ tasks # <<>>

\* C4: when the metadata call or the statistics call fails, filter 1 raises
\* before any writing statement: the store is as it was before the run.
C4_NoWriteOnApiFailure ==
    (pc = "raised" /\ error \in {"fetch_spot_symbols", "fetch_24h_tickers"}) =>
        /\ sqlLog = <<>>
        /\ conn = preRun
        /\ durable = preRun

C4_Witness ==
    /\ pc = "raised"
    /\ error = "fetch_24h_tickers"
    /\ symbol_infos # <<>>
    /\ ActiveSymbols(preRun) # {}

\* C5: at every point of a run the committed active flags are either those
\* stored before the run or exactly the selected symbols: a failure between
\* the clearing UPDATE and the commit leaves no partly re-marked set behind.
C5_ClearUpsertTransactional ==
    pc # "idle" =>
        \/ Flags(durable) = Flags(preRun)
        \/ /\ top_active # <<>>
           /\ ActiveSymbols(durable) = SymbolsOf(top_active)

C5_Witness ==
    /\ pc = "raised"
    /\ error = "sqlite3"
    /\ upsertIdx > 1
    /\ upsertIdx <= Len(top_active)
    /\ ActiveSymbols(preRun) # {}
    /\ ActiveSymbols(conn) # ActiveSymbols(preRun)
    /\ ActiveSymbols(conn) # SymbolsOf(top_active)

\* C8: for every symbol filter 2 has looked at, the task it emitted ends
\* today and starts the day after the symbol's last stored date, or
\* HistoryDays before today when nothing is stored; it emitted one exactly
\* when that start is not after today.
ExpectedStart(symbol_id) ==
    LET dates == StoredDates(conn, symbol_id)
    IN  IF dates = {} THEN today - HistoryDays
        ELSE 1 + CHOOSE m \in dates : \A d \in dates : d <= m

C8_GapRange ==
    pc = "f2" =>
        /\ \A i \in 1..Len(tasks) :
              /\ tasks[i].end_date = today
              /\ tasks[i].start_date = ExpectedStart(tasks[i].symbol_id)
        /\ \A k \in 1..(detectIdx - 1) :
              (ExpectedStart(symbols[k].symbol_id) <= today)
                  <=> (\E i \in 1..Len(tasks) :
                          tasks[i].symbol_id = symbols[k].symbol_id)

C8_Witness ==
    /\ pc = "f2"
    /\ detectIdx > Len(symbols)
    /\ \E i, j \in 1..Len(tasks) :
          /\ StoredDates(conn, tasks[i].symbol_id) = {}
          /\ tasks[i].start_date = today - HistoryDays
          /\ StoredDates(conn, tasks[j].symbol_id) # {}
          /\ tasks[j].start_date \in (today - HistoryDays + 1)..(today - 1)
          /\ tasks[j].start_date - 2 \in StoredDates(conn, tasks[j].symbol_id)

\* ------------------------------------------------------ claims on filter 1
Ranked == pc \in {"f1_clear", "f1_upsert", "f1_yield", "f2"}

\* The liquidity the statistics give a ticker: its parsed volume, 0 when the
\* ticker has no statistics object.
StatLiquidity(t) ==
    IF \E i \in 1..Len(tickers) : tickers[i].symbol = t
    THEN QuoteVolumeOf(tickers[CHOOSE i \in 1..Len(tickers) :
                                  tickers[i].symbol = t])
    ELSE 0

Eligible(info) ==
    /\ info.status = "TRADING"
    /\ ("isSpotTradingAllowed" \in DOMAIN info => info.isSpotTradingAllowed)
    /\ info.quoteAsset \in STABLE_QUOTES
    /\ StatLiquidity(info.symbol) > 0

EligibleSymbols ==
    {symbol_infos[i].symbol :
        i \in {j \in 1..Len(symbol_infos) : Eligible(symbol_infos[j])}}

Min2(a, b) == IF a < b THEN a ELSE b

\* C6: the selected symbols are distinct eligible candidates, as many as the
\* budget allows, and no eligible candidate left out has a liquidity
\* strictly greater than a selected one.
C6_TopNRanking ==
    Ranked =>
        /\ Len(top_active) = Min2(TopN, Cardinality(EligibleSymbols))
        /\ Cardinality(SymbolsOf(top_active)) = Len(top_active)
        /\ SymbolsOf(top_active) \subseteq EligibleSymbols
        /\ \A k \in 1..Len(top_active) :
              /\ top_active[k].liquidity_metric
                     = StatLiquidity(top_active[k].symbol)
              /\ \A t \in EligibleSymbols \ SymbolsOf(top_active) :
                     StatLiquidity(t) <= top_active[k].liquidity_metric

\* Liquidities {100, 50, 100} and a budget of 2: both 100s, never the 50.
C6_Witness ==
    /\ pc = "f1_clear"
    /\ EligibleSymbols = {"AAA", "BBB", "CCC"}
    /\ StatLiquidity("AAA") = 100
    /\ StatLiquidity("BBB") = 50
    /\ StatLiquidity("CCC") = 100
    /\ TopN < 3
    /\ SymbolsOf(top_active) \subseteq {"AAA", "CCC"}
    /\ symbol_infos[2].symbol = "BBB"

\* The same instruments listed in every order.
Reorderings(listing) ==
    {l \in [1..Len(listing) -> {listing[i] : i \in 1..Len(listing)}] :
        \A i, j \in 1..Len(listing) : i # j => l[i] # l[j]}

\* C7: listed in any other order, the same instruments and liquidities give
\* the same selected set.
C7_OrderIndependent ==
    Ranked =>
        \A l \in Reorderings(symbol_infos) :
            SymbolsOf(SelectTop(l, tickers, TopN)) = SymbolsOf(top_active)

\* C7 as amended: listed in any other order, the selection has the same
\* liquidity at every rank, and a symbol selected in one order only has the
\* liquidity of the last rank (the listing order decides among ties there).
C7_OrderDecidesOnlyTies ==
    Ranked =>
        \A l \in Reorderings(symbol_infos) :
            LET other == SelectTop(l, tickers, TopN)
            IN  /\ Len(other) = Len(top_active)
                /\ \A k \in 1..Len(other) :
                      /\ other[k].liquidity_metric
                             = top_active[k].liquidity_metric
                      /\ other[k].symbol \notin SymbolsOf(top_active)
                             => other[k].liquidity_metric
                                  = top_active[Len(top_active)].liquidity_metric

C7_Witness ==
    /\ pc = "f1_clear"
    /\ \E l \in Reorderings(symbol_infos) :
          SymbolsOf(SelectTop(l, tickers, TopN)) # SymbolsOf(top_active)

\* ------------------------------------------------------ claims on filter 3
\* Dates of the completed task for which the API returned a kline.
RealDates ==
    {d \in tasks[taskIdx - 1].start_date..tasks[taskIdx - 1].end_date :
        \E i \in 1..Len(all_klines) : DateOfMs(all_klines[i][1]) = d}

\* The kline normalization keeps for a date: the last one collected.
LastKlineOf(d) ==
    all_klines[CHOOSE i \in 1..Len(all_klines) :
                  /\ DateOfMs(all_klines[i][1]) = d
                  /\ \A j \in 1..Len(all_klines) :
                        DateOfMs(all_klines[j][1]) = d => j <= i]

RowsAt(d) == {i \in 1..Len(rows_to_store) : rows_to_store[i].date = d}

MaxOf(S) == CHOOSE m \in S : \A x \in S : x <= m
MinOf(S) == CHOOSE m \in S : \A x \in S : m <= x

IsFlatAt(row, price) ==
    /\ row.volume = 0
    /\ row.open = price
    /\ row.high = price
    /\ row.low = price
    /\ row.close = price

\* C9: a date of the task without a kline, after a date of the task with
\* one, gets exactly one row, of volume 0 and with open, high, low and close
\* equal to the close of the latest earlier date that has a kline.
C9_SyntheticFill ==
    TaskDone =>
        \A d \in tasks[taskIdx - 1].start_date..tasks[taskIdx - 1].end_date :
            (d \notin RealDates /\ \E p \in RealDates : p < d) =>
                LET p == MaxOf({q \in RealDates : q < d})
                IN  /\ Cardinality(RowsAt(d)) = 1
                    /\ \A i \in RowsAt(d) :
                          /\ IsFlatAt(rows_to_store[i], LastKlineOf(p)[5])
                          /\ RowsOf(durable, tasks[taskIdx - 1].symbol_id, d)
                                 = {rows_to_store[i]}

\* Klines for D1 and D3 only in a task [D1, D3]: D2 is flat at D1's close.
C9_Witness ==
    /\ TaskDone
    /\ tasks[1].start_date = 1
    /\ tasks[1].end_date = 3
    /\ RealDates = {1, 3}
    /\ LastKlineOf(1)[5] # LastKlineOf(3)[5]
    /\ \E i \in RowsAt(2) : IsFlatAt(rows_to_store[i], LastKlineOf(1)[5])

ActiveRows(db) == {r \in db.cryptocurrencies : r.is_active = 1}

\* C11: whatever runs have gone before, at most TopN stored symbols are
\* flagged active, and they are exactly the symbols of the last selection
\* filter 1 committed (a run that selects nothing commits none).
C11_ActiveSetBudget ==
    /\ Cardinality(ActiveRows(durable)) <= TopN
    /\ ActiveSymbols(durable) = lastSelected

\* A run has just committed a selection that drops a symbol the run before
\* had flagged, in a store holding more symbols than the budget.
C11_Witness ==
    /\ pc = "f1_yield"
    /\ Cardinality(durable.cryptocurrencies) > TopN
    /\ Cardinality(ActiveRows(durable)) = TopN
    /\ ActiveSymbols(preRun) \ ActiveSymbols(durable) # {}
    /\ ActiveSymbols(durable) = SymbolsOf(top_active)

\* C12: a run of filter 1 in which no candidate is left emits no symbol and
\* executes no writing statement: the store and its flags are as before.
C12_EmptySelectionNoOp ==
    (pc = "f2" /\ top_active = <<>>) =>
        /\ symbols = <<>>
        /\ sqlLog = <<>>
        /\ conn = preRun
        /\ durable = preRun

\* The listing was not empty, all of it was excluded, a flag was stored.
C12_Witness ==
    /\ pc = "f2"
    /\ top_active = <<>>
    /\ symbol_infos # <<>>
    /\ tickers # <<>>
    /\ ActiveSymbols(durable) # {}

\* ---------------------------------------------- claims on a failing task
FetchRaised == pc = "raised" /\ error = "fetch_klines_range"

\* C13: when a request of a task's pagination fails, the store is exactly as
\* it was when filter 3 took the task: no row of the task is written, and the
\* rows the task before it stored are still there.
C13_FailedTaskNoWrite ==
    FetchRaised =>
        /\ durable = preTask
        /\ \A i \in 1..Len(rows_to_store) :
              rows_to_store[i] \in durable.daily_data

\* The second task fails on a later page, after klines were collected for it
\* and after the first task stored rows.
C13_Witness ==
    /\ FetchRaised
    /\ taskIdx = 2
    /\ calls >= 1
    /\ all_klines # <<>>
    /\ rows_to_store # <<>>
    /\ preTask.daily_data # preRun.daily_data

\* C14: a failure while filling one task is confined to that task: when the
\* run stops on it, no other task of the run is left unprocessed.
C14_FailureIsolated ==
    FetchRaised => taskIdx = Len(tasks)

\* ------------------------------------------------------ claims on filter 2
TasksOf(symbol_id) == {i \in 1..Len(tasks) : tasks[i].symbol_id = symbol_id}

\* The symbol has a stored bar dated today or later.
UpToDate(symbol_id) == \E d \in StoredDates(conn, symbol_id) : d >= today

\* C15: no task filter 2 has emitted starts after it ends, and a symbol it
\* has looked at whose last stored date is today or later has no task.
C15_TaskStartNotAfterEnd ==
    pc = "f2" =>
        /\ \A i \in 1..Len(tasks) : tasks[i].start_date <= tasks[i].end_date
        /\ \A k \in 1..(detectIdx - 1) :
              UpToDate(symbols[k].symbol_id)
                  => TasksOf(symbols[k].symbol_id) = {}

\* Filter 2 is through: one symbol is stored up to today and has no task, the
\* other is stored up to yesterday and has the task [today, today].
C15_Witness ==
    /\ pc = "f2"
    /\ detectIdx > Len(symbols)
    /\ \E k \in 1..Len(symbols) :
          /\ today \in StoredDates(conn, symbols[k].symbol_id)
          /\ TasksOf(symbols[k].symbol_id) = {}
    /\ \E i \in 1..Len(tasks) :
          /\ StoredDates(conn, tasks[i].symbol_id) # {}
          /\ tasks[i].start_date = today
          /\ tasks[i].end_date = today

\* ------------------------------------------- claims on successive runs
\* The tasks filter 3 has not stored yet.
PendingTasks ==
    IF pc \in {"f2", "f3", "f3_loop", "f3_store"}
    THEN taskIdx..Len(tasks)
    ELSE {}

\* C16: a task that is still to be filled starts after every date stored for
\* its symbol, no request of its pagination begins on or before such a date,
\* and no step removes or rewrites a stored row.
C16_MonotonicCoverage ==
    /\ [](/\ \A i \in PendingTasks :
               \A d \in StoredDates(conn, tasks[i].symbol_id) :
                   tasks[i].start_date > d
          /\ pc = "f3_loop" =>
               \A c \in asked \cup {current_start} :
                   \A d \in StoredDates(conn, tasks[taskIdx].symbol_id) :
                       c > d)
    /\ [][/\ durable.daily_data \subseteq durable'.daily_data
          /\ conn.daily_data \subseteq conn'.daily_data]_vars

\* A later run has filled a task of a symbol that had bars stored: the new
\* bars lie after the old ones, which are all still there.
C16_Witness ==
    /\ TaskDone
    /\ rows_to_store # <<>>
    /\ StoredDates(preRun, tasks[taskIdx - 1].symbol_id) # {}
    /\ tasks[taskIdx - 1].start_date
           > MaxOf(StoredDates(preRun, tasks[taskIdx - 1].symbol_id))
    /\ preRun.daily_data \subseteq durable.daily_data
    /\ preRun.daily_data # durable.daily_data

\* ------------------------------------------------- claims on stored bars
KeyUnique(db) ==
    \A r1, r2 \in db.daily_data :
        (r1.symbol_id = r2.symbol_id /\ r1.date = r2.date) => r1 = r2

C19_DetectorReadOnly ==
    /\ [](pc = "f2" =>
            /\ queries = detectIdx - 1
            /\ \A k \in 1..(detectIdx - 1) :
                  Cardinality(TasksOf(symbols[k].symbol_id)) <= 1
            /\ \A i \in 1..Len(tasks) :
                  \E k \in 1..(detectIdx - 1) :
                      tasks[i].symbol_id = symbols[k].symbol_id)
    /\ [][pc = "f2" =>
            /\ conn' = conn
            /\ durable' = durable
            /\ sqlLog' = sqlLog
            /\ Len(tasks') \in {Len(tasks), Len(tasks) + 1}]_vars

\* Filter 2 is through with two symbols of a store holding bars: two SELECTs,
\* one task, the store as it was.
C19_Witness ==
    /\ pc = "f2"
    /\ detectIdx = 3
    /\ queries = 2
    /\ Len(tasks) = 1
    /\ conn.daily_data # {}
    /\ ActiveSymbols(conn) # {}
    /\ conn = preRun
    /\ durable = preRun

\* The stall guard has just broken the fetch loop of the task.
StallBroken ==
    /\ pc = "f3_store"
    /\ all_klines # <<>>
    /\ StallGuard(current_start, tasks[taskIdx].start_date)

\* C20: a task whose fetch loop was broken because the cursor did not move
\* forward is not completed as a success: nothing of it is stored.
C20_StallFailsTask ==
    [][StallBroken => (durable' = durable /\ sqlLog' = sqlLog)]_vars

\* ------------------------------------------ claims on the emitted symbols
\* The instruments of the listing that carry the ticker t.
ListedAs(t) ==
    {symbol_infos[i] : i \in {j \in 1..Len(symbol_infos) :
                                 symbol_infos[j].symbol = t}}

HasStatistics(t) == \E i \in 1..Len(tickers) : tickers[i].symbol = t

\* C21: every symbol filter 1 has emitted is flagged active and is listed
\* with status TRADING, spot trading not disabled and a quote asset of
\* the configured allow-list; its liquidity is above 0 and its ticker has
\* statistics.
C21_EmittedEligible ==
    pc = "f2" =>
        \A k \in 1..Len(symbols) :
            /\ symbols[k].symbol \in ActiveSymbols(durable)
            /\ symbols[k].liquidity_metric > 0
            /\ HasStatistics(symbols[k].symbol)
            /\ \E info \in ListedAs(symbols[k].symbol) :
                  /\ info.status = "TRADING"
                  /\ ~("isSpotTradingAllowed" \in DOMAIN info
                          /\ info.isSpotTradingAllowed = FALSE)
                  /\ info.quoteAsset \in stable_quotes
                  /\ info.quoteAsset = symbols[k].quote_asset

\* A symbol was emitted and the budget is not used up, although the listing
\* has a tradeable instrument on a stable quote without statistics and one
\* with statistics whose spot trading is disabled.
C21_Witness ==
    /\ pc = "f2"
    /\ Len(symbols) = 1
    /\ Len(symbols) < TopN
    /\ \E i \in 1..Len(symbol_infos) :
          /\ symbol_infos[i].status = "TRADING"
          /\ symbol_infos[i].quoteAsset \in STABLE_QUOTES
          /\ "isSpotTradingAllowed" \in DOMAIN symbol_infos[i]
          /\ symbol_infos[i].isSpotTradingAllowed
          /\ ~HasStatistics(symbol_infos[i].symbol)
    /\ \E i \in 1..Len(symbol_infos) :
          /\ symbol_infos[i].status = "TRADING"
          /\ symbol_infos[i].quoteAsset \in STABLE_QUOTES
          /\ "isSpotTradingAllowed" \in DOMAIN symbol_infos[i]
          /\ ~symbol_infos[i].isSpotTradingAllowed
          /\ StatLiquidity(symbol_infos[i].symbol) > 0

\* ------------------------------------------- claims on the stage order
PositionOf(symbol_id) ==
    CHOOSE k \in 1..Len(symbols) : symbols[k].symbol_id = symbol_id

\* C22: the stages work as producer and consumer: while filter 3 fetches and
\* stores for a task, filter 2 has not yet taken a symbol that filter 1
\* emitted after the task's symbol.
C22_StagesInterleave ==
    pc \in {"f3_loop", "f3_store"} =>
        detectIdx <= PositionOf(tasks[taskIdx].symbol_id) + 1

\* ------------------------------------------- claims on the configuration
\* C23: a run that finds the allow-list of stable quotes empty stops with a
\* configuration error before it calls the market-data API.
C23_ConfigErrorFirst ==
    stable_quotes = {} =>
        \/ pc = "f1_symbols"
        \/ pc = "raised" /\ error = "configuration"

\* ------------------------------------------ claims on the liquidity map
\* The volume the claim gives a statistics object: its parsed text, 0 when
\* the field is absent, null or not a number.
VolumeOrZero(t) ==
    IF /\ "quoteVolume" \in DOMAIN t
       /\ t.quoteVolume # None
       /\ t.quoteVolume[1] \in NumericTexts
    THEN FloatOf(t.quoteVolume[1])
    ELSE 0

\* C24: once filter 1 has built the liquidity map it has not raised on a
\* volume, and the map gives every ticker of the statistics its parsed
\* volume, 0 for a malformed or missing one.
C24_LiquidityParseDefault ==
    (pc \notin {"f1_symbols", "f1_tickers", "f1_rank"}) =>
        /\ error # "build_liquidity_map"
        /\ \A i \in 1..Len(tickers) :
              build_liquidity_map(tickers)[tickers[i].symbol]
                  = VolumeOrZero(tickers[i])

\* --------------------------------------------- claims on a resumed symbol
Contiguous(dates) ==
    \A d \in MinOf(dates)..MaxOf(dates) : d \in dates

\* C25: when filter 3 has completed the task of a later run without error,
\* the stored dates of every symbol form a contiguous calendar range.
C25_NoGapsAcrossRuns ==
    (TaskDone /\ error = "none") =>
        \A s \in durable.cryptocurrencies :
            StoredDates(durable, s.id) # {}
                => Contiguous(StoredDates(durable, s.id))

\* ------------------------------------------------- claims on pagination
\* The daily candles an API holding one candle for each date of H has in
\* [lo, hi], in time order.
DailyCandles(H, lo, hi) ==
    LET S == H \cap (lo..hi)
    IN  [i \in 1..Cardinality(S) |->
            KlineAt(date_to_ms(CHOOSE d \in S :
                                  Cardinality({x \in S : x < d}) = i - 1))]

\* Its answer to a request: the first page of them.
FirstPage(H, cursor, end) ==
    SubSeq(DailyCandles(H, cursor, end), 1,
           Min2(Cardinality(H \cap (cursor..end)), MaxChunk))

\* Every answer so far is the one of such an API.
AnswersAsHolding(H) ==
    \A req \in DOMAIN klinesMemo :
        klinesMemo[req] = FirstPage(H, DateOfMs(req[2]), DateOfMs(req[3]))

FillRequest(cursor) ==
    <<tasks[taskIdx].symbol, date_to_ms(cursor),
      date_to_ms(tasks[taskIdx].end_date)>>

\* C26: against an API that answers each request with the first page of the
\* candles it has in [cursor, end], the cursor starts at the task's start,
\* is the day after the last candle collected, the loop stops on an empty
\* page or with the cursor past the end, and what it returns is every candle
\* the API has in [start, end], once each, in ascending date order.
C26_PaginationCollectsOnce ==
    \A H \in SUBSET {1, 2, 3} :
        (AnswersAsHolding(H) /\ pc \in {"f3_loop", "f3_store"}) =>
            LET task == tasks[taskIdx]
            IN  /\ calls = 0 => current_start = task.start_date
                /\ all_klines # <<>> =>
                      current_start
                          = DateOfMs(all_klines[Len(all_klines)][1]) + 1
                /\ all_klines = DailyCandles(H, task.start_date,
                                             current_start - 1)
                /\ pc = "f3_store" =>
                      /\ \/ current_start > task.end_date
                         \/ /\ FillRequest(current_start) \in DOMAIN klinesMemo
                            /\ klinesMemo[FillRequest(current_start)] = <<>>
                      /\ all_klines = DailyCandles(H, task.start_date,
                                                   task.end_date)

\* The API has a candle for each of the three dates of the task; the loop
\* has collected them in two pages.
C26_Witness ==
    /\ pc = "f3_store"
    /\ AnswersAsHolding({1, 2, 3})
    /\ tasks[taskIdx].start_date = 1
    /\ tasks[taskIdx].end_date = 3
    /\ calls = 2
    /\ Len(all_klines) = 3

\* Every non-empty answer so far ends with a candle dated on or after the
\* cursor of its request.
AnswersMoveOn ==
    \A req \in DOMAIN klinesMemo :
        klinesMemo[req] # <<>> =>
            DateOfMs(klinesMemo[req][Len(klinesMemo[req])][1])
                >= DateOfMs(req[2])

\* The requests of the current task that returned candles.
FruitfulRequests ==
    {c \in asked : /\ FillRequest(c) \in DOMAIN klinesMemo
                   /\ klinesMemo[FillRequest(c)] # <<>>}

\* C28: while every non-empty page ends on or after the cursor it was asked
\* with, a turn of the loop that gets candles moves the cursor strictly
\* forward, and the loop makes at most end - start + 1 requests that return
\* candles and at most one that returns none.
C28_PaginationProgress ==
    /\ [](( AnswersMoveOn /\ pc \in {"f3_loop", "f3_store"}) =>
            LET task == tasks[taskIdx]
            IN  /\ Cardinality(FruitfulRequests)
                       <= task.end_date - task.start_date + 1
                /\ calls <= Cardinality(FruitfulRequests) + 1
                /\ calls > Cardinality(FruitfulRequests) => pc = "f3_store")
    /\ [][(pc = "f3_loop" /\ all_klines' # all_klines /\ AnswersMoveOn')
             => current_start' > current_start]_vars

\* The task covers three dates and the loop has ended after three requests
\* that each returned a candle and moved on.
C28_Witness ==
    /\ pc = "f3_store"
    /\ AnswersMoveOn
    /\ tasks[taskIdx].end_date - tasks[taskIdx].start_date + 1 = 3
    /\ Cardinality(FruitfulRequests) = 3
    /\ calls = 3

\* --------------------------------------------- claims on what filter 1 emits
\* C27: filter 1 hands symbols on only with the whole replacement of the
\* active set committed; what it has handed on is the selection, in its
\* order of non-increasing liquidity, each symbol with the id stored for its
\* ticker.
C27_EmissionAfterCommit ==
    /\ []((pc = "f2" /\ symbols # <<>>) =>
            LET selected == SelectTop(symbol_infos, tickers, TopN)
            IN  /\ Len(symbols) = Len(selected)
                /\ \A k \in 1..Len(symbols) :
                      /\ symbols[k].symbol = selected[k].symbol
                      /\ symbols[k].liquidity_metric
                             = selected[k].liquidity_metric
                      /\ k < Len(symbols) =>
                            symbols[k].liquidity_metric
                                >= symbols[k + 1].liquidity_metric
                      /\ \E r \in durable.cryptocurrencies :
                            /\ r.symbol = symbols[k].symbol
                            /\ r.id = symbols[k].symbol_id
                            /\ r.is_active = 1
                /\ ActiveSymbols(durable) = SymbolsOf(symbols))
    /\ [][symbols' # symbols =>
            /\ sqlLog # <<>>
            /\ sqlLog[Len(sqlLog)] = "commit"
            /\ durable = conn
            /\ ActiveSymbols(durable) = SymbolsOf(symbols')]_vars

\* Two symbols are handed on, the first more liquid than the second, one of
\* them new to the store and carrying the id the upsert gave it.
C27_Witness ==
    /\ pc = "f2"
    /\ Len(symbols) = 2
    /\ symbols[1].liquidity_metric > symbols[2].liquidity_metric
    /\ \E k \in 1..2 : symbols[k].symbol_id = MaxId(preRun.cryptocurrencies) + 1
    /\ durable # preRun

\* ------------------------------------------- claims on what a fill writes
\* The rows of a store outside the footprint of a task: those of other
\* symbols, and those of its symbol dated outside [start_date, end_date].
OutsideOf(task, db) ==
    {r \in db.daily_data :
        \/ r.symbol_id # task.symbol_id
        \/ r.date < task.start_date
        \/ r.date > task.end_date}

\* C29: the rows filter 3 writes for a task are rows of the task's symbol
\* dated in [start_date, end_date] in strictly ascending order of date; when
\* it has completed the task the store differs from the store before the
\* task by those rows only: rows of other symbols, rows dated outside the
\* range (a candle returned for such a date is not stored) and the table of
\* symbols are as before; no step in between touches either table otherwise.
C29_FillWriteFootprint ==
    /\ []((TaskDone /\ error = "none") =>
            LET task == tasks[taskIdx - 1]
            IN  /\ \A i \in 1..Len(rows_to_store) :
                      /\ rows_to_store[i].symbol_id = task.symbol_id
                      /\ rows_to_store[i].date >= task.start_date
                      /\ rows_to_store[i].date <= task.end_date
                      /\ i < Len(rows_to_store) =>
                            rows_to_store[i].date < rows_to_store[i + 1].date
                /\ OutsideOf(task, durable) = OutsideOf(task, preTask)
                /\ durable.daily_data \ preTask.daily_data
                       \subseteq {rows_to_store[i] : i \in 1..Len(rows_to_store)}
                /\ durable.cryptocurrencies = preTask.cryptocurrencies
                /\ conn = durable)
    /\ [][pc # "f3_store" => (durable' = durable /\ conn' = conn)]_vars

\* The task is done with rows written; the API had returned a candle dated
\* outside the range, and the bars stored before the task, one of the same
\* symbol and one of another symbol, are still there.
C29_Witness ==
    /\ TaskDone
    /\ error = "none"
    /\ rows_to_store # <<>>
    /\ \E i \in 1..Len(all_klines) :
          \/ DateOfMs(all_klines[i][1]) < tasks[taskIdx - 1].start_date
          \/ DateOfMs(all_klines[i][1]) > tasks[taskIdx - 1].end_date
    /\ preTask.daily_data # {}
    /\ preTask.daily_data \subseteq durable.daily_data
    /\ \E r \in preTask.daily_data : r.symbol_id # tasks[taskIdx - 1].symbol_id

====
